---- MODULE Spec2Model ----
(***************************************************************************)
(* The per-turn decision engine of example_snakes/MikeSnake/main.py.       *)
(* move(game_state) is modelled pass by pass: the score table, the safety  *)
(* mask and the other locals of move() are the variables, pc is the        *)
(* position inside move().  Scores are exact rationals.                    *)
(***************************************************************************)
EXTENDS Integers, Sequences, FiniteSets, TLC

VARIABLES
    game_state,         \* the snapshot move() was called with
    pc,                 \* position inside move()
    move_scores,        \* main.py:71
    safe_moves_mask,    \* main.py:74
    available_space,    \* main.py:245, per mask-safe move
    dynamic_threshold,  \* main.py:89
    next_move,          \* main.py:138/141
    history             \* the answer given on the first new-game snapshot seen

vars == <<game_state, pc, move_scores, safe_moves_mask, available_space,
          dynamic_threshold, next_move, history>>

-----------------------------------------------------------------------------
(* Strategy configuration, main.py:27-30 *)

LOW_HEALTH_THRESHOLD == 30
CRITICAL_HEALTH_THRESHOLD == 15
HUNT_REWARD_THRESHOLD == 3

(* The penalty of the Safety Filter and the sentinel of the aggregator *)
UNSAFE_PENALTY == 10000
SENTINEL == -9000

possible_moves == <<"up", "down", "left", "right">>
Moves == {"up", "down", "left", "right"}

-----------------------------------------------------------------------------
(* Sequence helpers standing for Python's list operations *)

SeqToSet(s) == {s[i] : i \in 1..Len(s)}

\* s[:-1]
ButLast(s) == IF Len(s) = 0 THEN <<>> ELSE SubSeq(s, 1, Len(s) - 1)

\* s[:-2]
ButLast2(s) == IF Len(s) <= 2 THEN <<>> ELSE SubSeq(s, 1, Len(s) - 2)

Abs(n) == IF n < 0 THEN -n ELSE n

RECURSIVE SumSeq(_)
SumSeq(s) == IF s = <<>> THEN 0 ELSE Head(s) + SumSeq(Tail(s))

RECURSIVE MaxSeq(_)
MaxSeq(s) == IF Len(s) = 1 THEN Head(s)
             ELSE LET r == MaxSeq(Tail(s)) IN IF Head(s) >= r THEN Head(s) ELSE r

-----------------------------------------------------------------------------
(* Exact rationals for Python's true division.  A value is [n, d] in lowest *)
(* terms with d > 0; d = 0 stands for the ZeroDivisionError Python raises.  *)

RECURSIVE GCD(_, _)
GCD(a, b) == IF b = 0 THEN a ELSE GCD(b, a % b)

ZeroDivisionError == [n |-> 0, d |-> 0]

QNorm(n, d) == LET g == GCD(Abs(n), d) IN [n |-> n \div g, d |-> d \div g]

\* n / d
QDiv(n, d) == IF d = 0 THEN ZeroDivisionError
              ELSE IF d < 0 THEN QNorm(-n, -d) ELSE QNorm(n, d)

QInt(n) == [n |-> n, d |-> 1]

QAdd(a, b) == IF a.d = 0 \/ b.d = 0 THEN ZeroDivisionError
              ELSE LET g == GCD(a.d, b.d)
                   IN QNorm(a.n * (b.d \div g) + b.n * (a.d \div g), a.d * (b.d \div g))

QNeg(a) == [n |-> -a.n, d |-> a.d]

QSub(a, b) == QAdd(a, QNeg(b))

\* a / k for an integer k
QDivInt(a, k) == IF a.d = 0 \/ k = 0 THEN ZeroDivisionError
                 ELSE IF k < 0 THEN QNorm(-a.n, a.d * (-k)) ELSE QNorm(a.n, a.d * k)

\* a < b, by whole parts first so that the products stay small
QLess(a, b) == LET ia == a.n \div a.d
                   ib == b.n \div b.d
               IN \/ ia < ib
                  \/ ia = ib /\ (a.n % a.d) * b.d < (b.n % b.d) * a.d

QGreater(a, b) == QLess(b, a)

\* a variant that keeps the last maximal element
RECURSIVE ArgMaxLastFrom(_, _, _)
ArgMaxLastFrom(keys, i, best) ==
    IF i > Len(keys) THEN best
    ELSE ArgMaxLastFrom(keys, i + 1, IF QLess(keys[i], keys[best]) THEN best ELSE i)

\* Python's max(seq, key=...): the first element whose key is maximal.
\* keys is a sequence of rationals, the result an index; 0 stands for the
\* ValueError Python raises on an empty sequence.
RECURSIVE ArgMaxFrom(_, _, _)
ArgMaxFrom(keys, i, best) ==
    IF i > Len(keys) THEN best
    ELSE ArgMaxFrom(keys, i + 1, IF QGreater(keys[i], keys[best]) THEN i ELSE best)

ArgMax(keys) == IF keys = <<>> THEN 0 ELSE ArgMaxFrom(keys, 2, 1)

\* Python's min(seq, key=...) over integer keys: the first minimal element.
RECURSIVE ArgMinFrom(_, _, _)
ArgMinFrom(keys, i, best) ==
    IF i > Len(keys) THEN best
    ELSE ArgMinFrom(keys, i + 1, IF keys[i] < keys[best] THEN i ELSE best)

ArgMin(keys) == IF keys = <<>> THEN 0 ELSE ArgMinFrom(keys, 2, 1)

-----------------------------------------------------------------------------
(* Utility functions, main.py:513-556 *)

Pos(px, py) == [x |-> px, y |-> py]

_get_next_position(position, move) ==
    IF move = "up" THEN Pos(position.x, position.y + 1)
    ELSE IF move = "down" THEN Pos(position.x, position.y - 1)
    ELSE IF move = "left" THEN Pos(position.x - 1, position.y)
    ELSE IF move = "right" THEN Pos(position.x + 1, position.y)
    ELSE position

_is_in_bounds(position, width, height) ==
    /\ 0 <= position.x /\ position.x < width
    /\ 0 <= position.y /\ position.y < height

_is_collision_with_body(position, body) ==
    \E i \in 1..Len(body) : position.x = body[i].x /\ position.y = body[i].y

\* a variant that takes the whole of each opponent body, tail included
_is_collision_with_opponents_whole(position, opponents) ==
    \E i \in 1..Len(opponents) :
        _is_collision_with_body(position, opponents[i].body)

_is_collision_with_opponents(position, opponents) ==
    \E i \in 1..Len(opponents) :
        _is_collision_with_body(position, ButLast(opponents[i].body))

_manhattan_distance(pos1, pos2) == Abs(pos1.x - pos2.x) + Abs(pos1.y - pos2.y)

_positions_equal(pos1, pos2) == pos1.x = pos2.x /\ pos1.y = pos2.y

-----------------------------------------------------------------------------
(* The locals move() reads off the snapshot, main.py:59-68 *)

MyBody(gs) == gs.you.body
MyHead(gs) == gs.you.body[1]
MyLength(gs) == Len(gs.you.body)
MyHealth(gs) == gs.you.health

IsOpponent(gs, snake) == snake.id # gs.you.id

Opponents(gs) == SelectSeq(gs.board.snakes, LAMBDA s : IsOpponent(gs, s))

NextPos(gs, move) == _get_next_position(MyHead(gs), move)

-----------------------------------------------------------------------------
(* Reachability estimator, main.py:563-620 *)

FloodObstacles(gs) ==
    SeqToSet(ButLast(gs.you.body)) \cup
    UNION {SeqToSet(ButLast(gs.board.snakes[i].body)) :
             i \in {j \in 1..Len(gs.board.snakes) : IsOpponent(gs, gs.board.snakes[j])}}

Min2(a, b) == IF a <= b THEN a ELSE b

\* a variant that lets the fill run over the whole board
BaseMaxWholeBoard(board_size) == board_size

BaseMax(board_size) ==
    IF board_size <= 100 THEN 80
    ELSE IF board_size <= 200 THEN 120
    ELSE Min2(board_size \div 2, 250)

\* a variant that walks the obstacle cells instead of the free ones
FloodExpandInverted(current, visited, obstacles, gs) ==
    SelectSeq([i \in 1..4 |-> _get_next_position(current, possible_moves[i])],
              LAMBDA p : /\ p \notin visited
                         /\ p \in obstacles
                         /\ _is_in_bounds(p, gs.board.width, gs.board.height))

\* a variant that does not look at the cells already seen
FloodExpandRevisits(current, visited, obstacles, gs) ==
    SelectSeq([i \in 1..4 |-> _get_next_position(current, possible_moves[i])],
              LAMBDA p : /\ p \notin obstacles
                         /\ _is_in_bounds(p, gs.board.width, gs.board.height))

\* the cells one iteration of the while loop appends to the queue
FloodExpand(current, visited, obstacles, gs) ==
    SelectSeq([i \in 1..4 |-> _get_next_position(current, possible_moves[i])],
              LAMBDA p : /\ p \notin visited
                         /\ p \notin obstacles
                         /\ _is_in_bounds(p, gs.board.width, gs.board.height))

\* the state of a fill before it starts: main.py:593-597.  dequeued and
\* enqueued list the cells taken off the queue and put on it, in order.
FloodStart(start_pos) ==
    [queue |-> <<start_pos>>, visited |-> {start_pos}, count |-> 0,
     dequeued |-> <<>>, enqueued |-> <<start_pos>>]

\* the while loop, main.py:599-618
RECURSIVE FloodLoop(_, _, _, _, _)
FloodLoop(run, obstacles, base_max, safe_space, gs) ==
    IF run.queue = <<>> \/ ~(run.count < base_max) THEN run
    ELSE LET current == Head(run.queue)
             popped == [run EXCEPT !.queue = Tail(@), !.count = @ + 1,
                                   !.dequeued = Append(@, current)]
         IN IF popped.count >= safe_space THEN popped
            ELSE LET added == FloodExpand(current, run.visited, obstacles, gs)
                 IN FloodLoop([popped EXCEPT !.queue = @ \o added,
                                             !.visited = @ \cup SeqToSet(added),
                                             !.enqueued = @ \o added],
                              obstacles, base_max, safe_space, gs)

\* one call of the estimator, with the loop's bookkeeping
FloodRun(start_pos, gs) ==
    FloodLoop(FloodStart(start_pos), FloodObstacles(gs),
              BaseMax(gs.board.width * gs.board.height), MyLength(gs) * 3, gs)

_flood_fill_dynamic(start_pos, gs) == FloodRun(start_pos, gs).count

-----------------------------------------------------------------------------
(* First layer: the Safety Filter, main.py:199-229 *)

\* the first check of the loop body that fails for the move, "none" if none does
UnsafeReason(gs, move) ==
    LET next_pos == NextPos(gs, move)
        my_body == MyBody(gs)
    IN IF Len(my_body) > 1 /\ next_pos.x = my_body[2].x /\ next_pos.y = my_body[2].y
         THEN "neck"
       ELSE IF ~_is_in_bounds(next_pos, gs.board.width, gs.board.height)
         THEN "bounds"
       ELSE IF _is_collision_with_body(next_pos, ButLast(my_body))
         THEN "body"
       ELSE IF _is_collision_with_opponents(next_pos, Opponents(gs))
         THEN "opponent"
       ELSE "none"

\* the mask _evaluate_basic_safety returns
SafeMask(gs) == [m \in Moves |-> UnsafeReason(gs, m) = "none"]

\* the score table _evaluate_basic_safety leaves
_evaluate_basic_safety(gs, scores) ==
    [m \in Moves |-> IF UnsafeReason(gs, m) = "none" THEN scores[m]
                     ELSE QSub(scores[m], QInt(UNSAFE_PENALTY))]

-----------------------------------------------------------------------------
(* Second layer: space evaluation, main.py:232-254 *)

\* available_space of each mask-safe move (0 where the loop continues)
SpaceOfMoves(gs, mask) ==
    [m \in Moves |-> IF mask[m] THEN _flood_fill_dynamic(NextPos(gs, m), gs) ELSE 0]

\* variant: the 200 is charged whenever the space is below the length
SpaceContributionFlat(my_length, space) ==
    space * 10
    - (IF space < my_length THEN (my_length - space) * 50 ELSE 0)
    - (IF space < my_length THEN 200 ELSE 0)

SpaceContribution(my_length, space) ==
    space * 10
    - (IF space < my_length THEN (my_length - space) * 50 ELSE 0)
    - (IF space < my_length /\ space < my_length \div 2 THEN 200 ELSE 0)

\* a variant without the test of the mask
SpaceAvailabilityUnmasked(gs, mask, scores) ==
    [m \in Moves |->
        QAdd(scores[m],
             QInt(SpaceContribution(MyLength(gs), _flood_fill_dynamic(NextPos(gs, m), gs))))]

_evaluate_space_availability(gs, mask, scores) ==
    [m \in Moves |->
        IF ~mask[m] THEN scores[m]
        ELSE QAdd(scores[m],
                  QInt(SpaceContribution(MyLength(gs),
                                         _flood_fill_dynamic(NextPos(gs, m), gs))))]

-----------------------------------------------------------------------------
(* Dynamic aggression threshold, main.py:152-192 *)

OpponentLengths(gs) == [i \in 1..Len(Opponents(gs)) |-> Len(Opponents(gs)[i].body)]

\* a variant in which two opponents no longer count as few
ThresholdFewBelowTwo(gs) ==
    LET my_length == MyLength(gs)
        lens == OpponentLengths(gs)
        count == Len(lens)
        total == SumSeq(lens)
    IN IF count = 0 THEN 6
       ELSE IF total > (my_length + 3) * count THEN 10
       ELSE IF MaxSeq(lens) > my_length + 4 THEN 11
       ELSE IF total < (my_length - 2) * count THEN 6
       ELSE IF count >= 4 THEN 9
       ELSE IF count < 2 THEN 7
       ELSE 8

\* a variant whose weak-opposition rule fires on the wrong side of the margin
ThresholdWeakInverted(gs) ==
    LET my_length == MyLength(gs)
        lens == OpponentLengths(gs)
        count == Len(lens)
        total == SumSeq(lens)
    IN IF count = 0 THEN 6
       ELSE IF total > (my_length + 3) * count THEN 10
       ELSE IF MaxSeq(lens) > my_length + 4 THEN 11
       ELSE IF total > (my_length - 2) * count THEN 6
       ELSE IF count >= 4 THEN 9
       ELSE IF count <= 2 THEN 7
       ELSE 8

\* avg_opponent_length is sum / count: it is compared through sum and count
_calculate_dynamic_aggressive_threshold(gs) ==
    LET my_length == MyLength(gs)
        lens == OpponentLengths(gs)
        count == Len(lens)
        total == SumSeq(lens)
    IN IF count = 0 THEN 6
       ELSE IF total > (my_length + 3) * count THEN 10
       ELSE IF MaxSeq(lens) > my_length + 4 THEN 11
       ELSE IF total < (my_length - 2) * count THEN 6
       ELSE IF count >= 4 THEN 9
       ELSE IF count <= 2 THEN 7
       ELSE 8

\* main.py:91-93
IsAggressive(gs, threshold) ==
    MyLength(gs) >= threshold /\ MyHealth(gs) > LOW_HEALTH_THRESHOLD
IsCritical(gs) == MyHealth(gs) < CRITICAL_HEALTH_THRESHOLD
NeedFood(gs) == MyHealth(gs) < LOW_HEALTH_THRESHOLD

-----------------------------------------------------------------------------
(* Projection of a target onto the mask-safe moves, main.py:363-384 *)

\* weight / (distance + 1) added to every mask-safe move
PullToward(gs, mask, scores, target, weight) ==
    [m \in Moves |->
        IF ~mask[m] THEN scores[m]
        ELSE QAdd(scores[m],
                  QDivInt(weight, _manhattan_distance(NextPos(gs, m), target) + 1))]

_apply_hunting_strategy(gs, hunt_option, mask, scores) ==
    PullToward(gs, mask, scores, hunt_option.target, hunt_option.score)

_apply_food_seeking(gs, target_food, mask, scores, weight) ==
    PullToward(gs, mask, scores, target_food, QInt(weight))

-----------------------------------------------------------------------------
(* Emergency strategy, main.py:257-360 *)

None == [exists |-> FALSE]

\* main.py:269-278
BestFoodOption(gs) ==
    LET food == gs.board.food
        dists == [i \in 1..Len(food) |-> _manhattan_distance(MyHead(gs), food[i])]
        k == ArgMin(dists)
    IN IF food = <<>> THEN None
       ELSE IF dists[k] < MyHealth(gs)
         THEN [exists |-> TRUE, target |-> food[k], distance |-> dists[k],
               score |-> QDiv(500, dists[k] + 1)]
       ELSE None

\* main.py:296-308
RECURSIVE ThirdPartyThreatFrom(_, _, _)
ThirdPartyThreatFrom(gs, opponent, j) ==
    LET opponents == Opponents(gs)
    IN IF j > Len(opponents) THEN QInt(0)
       ELSE LET other == opponents[j]
                d == _manhattan_distance(opponent.body[1], other.body[1])
                rest == ThirdPartyThreatFrom(gs, opponent, j + 1)
            IN IF other.id # opponent.id /\ Len(other.body) >= MyLength(gs) /\ d <= 5
                 THEN QAdd(QDiv(200, d + 1), rest)
               ELSE rest

ThirdPartyThreat(gs, opponent) == ThirdPartyThreatFrom(gs, opponent, 1)

\* main.py:311-316: the snapshot with Self already on the opponent's head
ChaseState(gs, opponent_head) ==
    [gs EXCEPT !.you = [id |-> gs.you.id,
                        body |-> <<opponent_head>> \o ButLast(gs.you.body),
                        health |-> gs.you.health]]

ChasePathSafe(gs, opponent) ==
    _flood_fill_dynamic(opponent.body[1], ChaseState(gs, opponent.body[1])) >= MyLength(gs)

\* a variant that forgets the flat cost of 100
HuntScoreNoCost(gs, opponent) ==
    QSub(QInt(Len(opponent.body) * 50
              - _manhattan_distance(MyHead(gs), opponent.body[1]) * 10
              - (IF ChasePathSafe(gs, opponent) THEN 0 ELSE 150)),
         ThirdPartyThreat(gs, opponent))

\* main.py:321-327
HuntScore(gs, opponent) ==
    QSub(QInt(Len(opponent.body) * 50
              - _manhattan_distance(MyHead(gs), opponent.body[1]) * 10
              - (IF ChasePathSafe(gs, opponent) THEN 0 ELSE 150)
              - 100),
         ThirdPartyThreat(gs, opponent))

\* a variant that asks of the score only that it be positive
HuntCandidateLowBar(gs, opponent) ==
    /\ ~(Len(opponent.body) >= MyLength(gs))
    /\ ~(_manhattan_distance(MyHead(gs), opponent.body[1]) >= MyHealth(gs) - 5)
    /\ QGreater(HuntScore(gs, opponent), QInt(0))
    /\ Len(opponent.body) >= HUNT_REWARD_THRESHOLD

\* main.py:285-291 and 330
HuntCandidate(gs, opponent) ==
    /\ ~(Len(opponent.body) >= MyLength(gs))
    /\ ~(_manhattan_distance(MyHead(gs), opponent.body[1]) >= MyHealth(gs) - 5)
    /\ QGreater(HuntScore(gs, opponent), QInt(50))
    /\ Len(opponent.body) >= HUNT_REWARD_THRESHOLD

HuntOption(gs, opponent) ==
    [exists |-> TRUE,
     target |-> opponent.body[1],
     distance |-> _manhattan_distance(MyHead(gs), opponent.body[1]),
     score |-> HuntScore(gs, opponent),
     third_party_risk |-> ThirdPartyThreat(gs, opponent),
     path_safe |-> ChasePathSafe(gs, opponent)]

\* a variant that lets a later opponent of equal score replace the retained one
RECURSIVE BestHuntLastFrom(_, _, _)
BestHuntLastFrom(gs, j, best) ==
    LET opponents == Opponents(gs)
    IN IF j > Len(opponents) THEN best
       ELSE IF /\ HuntCandidate(gs, opponents[j])
               /\ (~best.exists \/ ~QLess(HuntScore(gs, opponents[j]), best.score))
         THEN BestHuntLastFrom(gs, j + 1, HuntOption(gs, opponents[j]))
       ELSE BestHuntLastFrom(gs, j + 1, best)

\* the loop of main.py:281-338 from opponent j on, best being the option so far
RECURSIVE BestHuntFrom(_, _, _)
BestHuntFrom(gs, j, best) ==
    LET opponents == Opponents(gs)
    IN IF j > Len(opponents) THEN best
       ELSE IF /\ HuntCandidate(gs, opponents[j])
               /\ (~best.exists \/ QGreater(HuntScore(gs, opponents[j]), best.score))
         THEN BestHuntFrom(gs, j + 1, HuntOption(gs, opponents[j]))
       ELSE BestHuntFrom(gs, j + 1, best)

BestHuntOption(gs) == BestHuntFrom(gs, 1, None)

\* a variant that lets the scores alone decide between the two options
EmergencyChoiceByScore(gs) ==
    LET hunt == BestHuntOption(gs)
        food == BestFoodOption(gs)
    IN IF hunt.exists /\ food.exists
         THEN IF QGreater(hunt.score, QAdd(food.score, food.score))
                THEN "hunt" ELSE "food"
       ELSE IF hunt.exists THEN "hunt"
       ELSE IF food.exists THEN "food"
       ELSE "none"

\* main.py:341-360: "hunt", "food" or "none"
EmergencyChoice(gs) ==
    LET hunt == BestHuntOption(gs)
        food == BestFoodOption(gs)
    IN IF hunt.exists /\ food.exists
         THEN IF /\ QGreater(hunt.score, QAdd(food.score, food.score))
                 /\ hunt.path_safe
                 /\ QLess(hunt.third_party_risk, QInt(100))
                THEN "hunt" ELSE "food"
       ELSE IF hunt.exists THEN "hunt"
       ELSE IF food.exists THEN "food"
       ELSE "none"

_evaluate_emergency_strategy_enhanced(gs, mask, scores) ==
    LET choice == EmergencyChoice(gs)
    IN IF choice = "hunt" THEN _apply_hunting_strategy(gs, BestHuntOption(gs), mask, scores)
       ELSE IF choice = "food"
         THEN _apply_food_seeking(gs, BestFoodOption(gs).target, mask, scores, 500)
       ELSE scores

-----------------------------------------------------------------------------
(* Smart food seeking, main.py:387-428 and 627-653 *)

\* main.py:629-636: the snapshot with Self already on the food
ArrivalState(gs, food_pos) ==
    [board |-> gs.board,
     you |-> [id |-> gs.you.id,
              body |-> <<food_pos>> \o ButLast(gs.you.body),
              health |-> gs.you.health]]

_estimate_space_after_reaching(food_pos, gs) ==
    _flood_fill_dynamic(food_pos, ArrivalState(gs, food_pos))

RECURSIVE CountThreatsFrom(_, _, _)
CountThreatsFrom(gs, food_pos, j) ==
    LET opponents == Opponents(gs)
    IN IF j > Len(opponents) THEN QInt(0)
       ELSE LET opp_distance == _manhattan_distance(opponents[j].body[1], food_pos)
                rest == CountThreatsFrom(gs, food_pos, j + 1)
            IN IF /\ opp_distance <= _manhattan_distance(MyHead(gs), food_pos)
                  /\ Len(opponents[j].body) >= MyLength(gs)
                 THEN QAdd(QDiv(10, opp_distance + 1), rest)
               ELSE rest

_count_threats_near(food_pos, gs) == CountThreatsFrom(gs, food_pos, 1)

\* a variant that forgets the threat around the food
FoodTotalScoreNoThreat(gs, f) ==
    QAdd(QDiv(100, _manhattan_distance(MyHead(gs), f) + 1),
         QInt(_estimate_space_after_reaching(f, gs) * 2))

\* total_score of one food item, main.py:401-410
FoodTotalScore(gs, f) ==
    QSub(QAdd(QDiv(100, _manhattan_distance(MyHead(gs), f) + 1),
              QInt(_estimate_space_after_reaching(f, gs) * 2)),
         _count_threats_near(f, gs))

\* main.py:413: index of best_food in the food list, 0 for max() of nothing
BestFoodIndex(gs) ==
    ArgMax([i \in 1..Len(gs.board.food) |-> FoodTotalScore(gs, gs.board.food[i])])

\* a variant that pulls as weakly at any health
FoodWeightFlat(gs) == 30

FoodWeight(gs) == IF IsCritical(gs) THEN 200 ELSE IF NeedFood(gs) THEN 100 ELSE 30

_evaluate_food_seeking_smart(gs, mask, scores) ==
    PullToward(gs, mask, scores, gs.board.food[BestFoodIndex(gs)], QInt(FoodWeight(gs)))

-----------------------------------------------------------------------------
(* Aggressive strategy, main.py:431-455 *)

\* a variant that fears a longer opponent at any distance
AggressiveTermAnyRange(gs, opponent, move) ==
    LET distance == _manhattan_distance(NextPos(gs, move), opponent.body[1])
    IN IF Len(opponent.body) < MyLength(gs) THEN QDiv(50, distance + 1)
       ELSE QNeg(QDiv(100, distance + 1))

\* what one opponent adds to a mask-safe move
AggressiveTerm(gs, opponent, move) ==
    LET distance == _manhattan_distance(NextPos(gs, move), opponent.body[1])
    IN IF Len(opponent.body) < MyLength(gs) THEN QDiv(50, distance + 1)
       ELSE IF distance <= 2 THEN QNeg(QDiv(100, distance + 1))
       ELSE QInt(0)

RECURSIVE AggressiveFrom(_, _, _, _)
AggressiveFrom(gs, mask, scores, j) ==
    LET opponents == Opponents(gs)
    IN IF j > Len(opponents) THEN scores
       ELSE AggressiveFrom(gs, mask,
                [m \in Moves |-> IF ~mask[m] THEN scores[m]
                                 ELSE QAdd(scores[m], AggressiveTerm(gs, opponents[j], m))],
                j + 1)

_evaluate_aggressive_strategy(gs, mask, scores) == AggressiveFrom(gs, mask, scores, 1)

-----------------------------------------------------------------------------
(* Head-to-head defence with two-step prediction, main.py:458-492, 660-687 *)

FourNeighbours(position) ==
    [i \in 1..4 |-> _get_next_position(position, possible_moves[i])]

\* first_step_positions, main.py:667-674
FirstStepPositions(opponent, board_width, board_height) ==
    SelectSeq(FourNeighbours(opponent.body[1]),
              LAMBDA p : /\ _is_in_bounds(p, board_width, board_height)
                         /\ ~_is_collision_with_body(p, ButLast(opponent.body)))

\* the positions main.py:678-685 appends for one first step
SecondStepPositions(opponent, pos1, board_width, board_height) ==
    SelectSeq(FourNeighbours(pos1),
              LAMBDA p : /\ _is_in_bounds(p, board_width, board_height)
                         /\ ~_is_collision_with_body(p, <<pos1>> \o ButLast2(opponent.body)))

RECURSIVE SecondStepsFrom(_, _, _, _, _)
SecondStepsFrom(opponent, firsts, k, board_width, board_height) ==
    IF k > Len(firsts) THEN <<>>
    ELSE SecondStepPositions(opponent, firsts[k], board_width, board_height)
         \o SecondStepsFrom(opponent, firsts, k + 1, board_width, board_height)

_predict_opponent_next_moves(opponent, board_width, board_height) ==
    LET firsts == FirstStepPositions(opponent, board_width, board_height)
    IN firsts \o SecondStepsFrom(opponent, firsts, 1, board_width, board_height)

\* the penalty of main.py:486-489
HeadToHeadPenalty(gs, opponent, move) ==
    IF _manhattan_distance(NextPos(gs, move), opponent.body[1]) <= 1
      THEN 400 + (Len(opponent.body) - MyLength(gs)) * 50
    ELSE 200 + (Len(opponent.body) - MyLength(gs)) * 30

\* a variant without the break: one penalty for every match
HeadToHeadTermEveryMatch(gs, opponent, move) ==
    LET predicted == _predict_opponent_next_moves(opponent, gs.board.width, gs.board.height)
    IN IF Len(opponent.body) >= MyLength(gs)
         THEN HeadToHeadPenalty(gs, opponent, move)
              * Cardinality({k \in 1..Len(predicted) :
                                _positions_equal(NextPos(gs, move), predicted[k])})
       ELSE 0

\* what one opponent takes from a mask-safe move: one penalty at the first match
HeadToHeadTerm(gs, opponent, move) ==
    LET predicted == _predict_opponent_next_moves(opponent, gs.board.width, gs.board.height)
    IN IF /\ Len(opponent.body) >= MyLength(gs)
          /\ \E k \in 1..Len(predicted) : _positions_equal(NextPos(gs, move), predicted[k])
         THEN HeadToHeadPenalty(gs, opponent, move)
       ELSE 0

RECURSIVE HeadToHeadFrom(_, _, _, _)
HeadToHeadFrom(gs, mask, scores, j) ==
    LET opponents == Opponents(gs)
    IN IF j > Len(opponents) THEN scores
       ELSE HeadToHeadFrom(gs, mask,
                [m \in Moves |-> IF ~mask[m] THEN scores[m]
                                 ELSE QSub(scores[m], QInt(HeadToHeadTerm(gs, opponents[j], m)))],
                j + 1)

_evaluate_head_to_head_defense_enhanced(gs, mask, scores) == HeadToHeadFrom(gs, mask, scores, 1)

-----------------------------------------------------------------------------
(* Position preference, main.py:495-506 *)

\* 5 / (distance_to_center + 1), the centre being (width / 2, height / 2):
\* twice the distance is the integer |2x - width| + |2y - height|
CentreTerm(gs, move) ==
    LET next_pos == NextPos(gs, move)
        twice == Abs(2 * next_pos.x - gs.board.width) + Abs(2 * next_pos.y - gs.board.height)
    IN QDiv(10, twice + 2)

\* a variant that prefers the centre only for moves not yet in deficit
PositionPreferenceOfLeaders(gs, mask, scores) ==
    [m \in Moves |-> IF ~mask[m] \/ QLess(scores[m], QInt(0)) THEN scores[m]
                     ELSE QAdd(scores[m], CentreTerm(gs, m))]

\* a variant that rewards the masked moves as well
PositionPreferenceUnmasked(gs, mask, scores) ==
    [m \in Moves |-> QAdd(scores[m], CentreTerm(gs, m))]

_evaluate_position_preference(gs, mask, scores) ==
    [m \in Moves |-> IF ~mask[m] THEN scores[m] ELSE QAdd(scores[m], CentreTerm(gs, m))]

-----------------------------------------------------------------------------
(* Decision aggregator, main.py:134-145 *)

\* safe_moves, main.py:135
SafeMoves(mask, scores) ==
    SelectSeq(possible_moves, LAMBDA m : mask[m] /\ QGreater(scores[m], QInt(SENTINEL)))

\* max(candidates, key=score); "ValueError" for max() of an empty list
MaxByScore(candidates, scores) ==
    LET k == ArgMax([i \in 1..Len(candidates) |-> scores[candidates[i]]])
    IN IF k = 0 THEN "ValueError" ELSE candidates[k]

\* a variant without the fallback of main.py:141-145
SelectMoveNoFallback(mask, scores) == MaxByScore(SafeMoves(mask, scores), scores)

SelectMove(mask, scores) ==
    IF SafeMoves(mask, scores) = <<>> THEN MaxByScore(possible_moves, scores)
    ELSE MaxByScore(SafeMoves(mask, scores), scores)

-----------------------------------------------------------------------------
(* The snapshots the host delivers.  A body is a simple path of cells, head *)
(* first, whose last cell may be stacked: a snake that has just eaten has   *)
(* its tail doubled, a snake on its first turn lies coiled on one cell.     *)

MaxLen == 4         \* longest Self body on the small board
MaxStack == 1       \* most extra copies of the tail cell

SmallBoards == {<<3, 3>>}
Healths == {100}

Cells(w, h) == {Pos(cx, cy) : cx \in 0..(w - 1), cy \in 0..(h - 1)}

Neighbours(c, w, h) ==
    {p \in {_get_next_position(c, m) : m \in Moves} : _is_in_bounds(p, w, h)}

RECURSIVE PathsOfLen(_, _, _)
PathsOfLen(k, w, h) ==
    IF k = 1 THEN {<<c>> : c \in Cells(w, h)}
    ELSE UNION {{Append(p, q) : q \in Neighbours(p[Len(p)], w, h) \ SeqToSet(p)} :
                  p \in PathsOfLen(k - 1, w, h)}

Stacked(p, r) == p \o [i \in 1..r |-> p[Len(p)]]

Bodies(w, h, minlen, maxlen) ==
    UNION {UNION {{Stacked(p, r) : p \in PathsOfLen(k, w, h)} :
                    r \in {q \in 0..MaxStack : minlen <= k + q /\ k + q <= maxlen}} :
             k \in 1..maxlen}

Snake(id, body, health) == [id |-> id, body |-> body, health |-> health]

Snapshot(w, h, food, you, others) ==
    [board |-> [width |-> w, height |-> h, food |-> food, snakes |-> <<you>> \o others],
     you |-> you]

\* Self alone or with one opponent of one or two segments on a small board,
\* no two snakes overlapping
SmallSnapshots ==
    UNION {UNION {UNION {
        {Snapshot(b[1], b[2], <<>>, Snake("me", body, hp), <<>>)}
        \cup {Snapshot(b[1], b[2], <<>>, Snake("me", body, hp), <<Snake("opp1", ob, 90)>>) :
                ob \in {o \in Bodies(b[1], b[2], 1, 2) :
                          SeqToSet(o) \cap SeqToSet(body) = {}}} :
        hp \in Healths} :
        body \in Bodies(b[1], b[2], 2, MaxLen)} :
        b \in SmallBoards}

\* A long Self coiled row by row over a large board, its head beside a corner
\* cell it has walled in; every mirror image and rotation of that position.
CoilBoard == <<19, 19>>
CoilLens == {30, 178, 197, 198}
Orientations == [fx : BOOLEAN, fy : BOOLEAN, tr : BOOLEAN]

Serpentine(k, w) ==
    LET row == k \div w
        col == k % w
    IN Pos(IF row % 2 = 0 THEN col ELSE w - 1 - col, row)

Orient(p, o, w) ==
    LET px == IF o.fx THEN w - 1 - p.x ELSE p.x
        py == IF o.fy THEN w - 1 - p.y ELSE p.y
    IN IF o.tr THEN Pos(py, px) ELSE Pos(px, py)

CoilBody(len, o) == [k \in 1..len |-> Orient(Serpentine(k, CoilBoard[1]), o, CoilBoard[1])]

CoilSnapshots ==
    {Snapshot(CoilBoard[1], CoilBoard[2], <<>>, Snake("me", CoilBody(len, o), 100), <<>>) :
        len \in CoilLens, o \in Orientations}

\* Self and up to MaxOpps opponents stretched out along the rows of a board,
\* one row each, heads to the right: the populations the threshold is about.
MaxOpps == 4
BandBoard == <<11, 11>>
SelfLens == {3, 6}
OppLens == {1, 4, 10}
BandHealths == {10, 100}
BandFoods == {<<>>, <<Pos(5, 5)>>}

RowBody(len, row) == [k \in 1..len |-> Pos(len - k, row)]

OppName(j) == <<"opp1", "opp2", "opp3", "opp4", "opp5", "opp6">>[j]

\* the opponents of lengths lens, the j-th in row j
RowOpponents(lens) == [j \in 1..Len(lens) |-> Snake(OppName(j), RowBody(lens[j], j), 90)]

Populations == UNION {[1..n -> OppLens] : n \in 0..MaxOpps}

BandSnapshot(len, hp, food, lens) ==
    Snapshot(BandBoard[1], BandBoard[2], food, Snake("me", RowBody(len, 0), hp),
             RowOpponents(lens))

BandSnapshots ==
    {BandSnapshot(len, hp, food, lens) :
        len \in SelfLens, hp \in BandHealths, food \in BandFoods, lens \in Populations}

\* the first turn of a new game on a small board: Self coiled on one cell
FreshGames ==
    {Snapshot(b[1], b[2], <<>>, Snake("me", Stacked(<<c>>, 2), 100), <<>>) :
        b \in SmallBoards, c \in UNION {Cells(bb[1], bb[2]) : bb \in SmallBoards}}

\* Self at critical health beside one shorter opponent lying along a row
\* above it, at several lengths and distances, with no food, food nearby or
\* food far away.
HuntLens == {2, 3, 4, 5}
HuntRows == {1, 2, 3}
CriticalHealths == {10, 14}
EmergencyFoods == {<<>>, <<Pos(5, 5)>>, <<Pos(10, 4)>>}

ChaseSnapshots ==
    {Snapshot(BandBoard[1], BandBoard[2], food, Snake("me", RowBody(len, 0), hp),
              <<Snake("opp1", RowBody(l, r), 90)>>) :
        len \in SelfLens, hp \in CriticalHealths, food \in EmergencyFoods,
        l \in HuntLens, r \in HuntRows}

\* Self of eight segments and an opponent of seven filling a 4x4 board but
\* for one cell: the chase onto the opponent's head leads into a dead end.
PenSelf ==
    <<Pos(0, 1), Pos(1, 1), Pos(2, 1), Pos(3, 1), Pos(3, 0), Pos(2, 0), Pos(1, 0), Pos(0, 0)>>
PenOpponent ==
    <<Pos(0, 2), Pos(1, 2), Pos(2, 2), Pos(3, 2), Pos(3, 3), Pos(2, 3), Pos(1, 3)>>

PenSnapshots ==
    {Snapshot(4, 4, food, Snake("me", PenSelf, hp), <<Snake("opp1", PenOpponent, 90)>>) :
        hp \in CriticalHealths, food \in {<<>>, <<Pos(0, 3)>>}}

ColumnBody(len, col, row) == [k \in 1..len |-> Pos(col, row + k - 1)]

\* Self of seven segments, a prey of six, and a rival as long as Self with
\* its head next to the prey's head.
RivalSnapshots ==
    {Snapshot(BandBoard[1], BandBoard[2], food, Snake("me", RowBody(7, 0), hp),
              <<Snake("opp1", RowBody(6, 1), 90), Snake("opp2", ColumnBody(7, 5, 2), 90)>>) :
        hp \in CriticalHealths, food \in {<<>>, <<Pos(10, 4)>>, <<Pos(0, 6)>>}}

\* The pen at the bottom of a 4x10 board, closed from above by a third snake
\* as long as Self whose head is far from the prey's, with no food or food
\* in the far corner.
PenWall ==
    <<Pos(3, 6), Pos(3, 5), Pos(3, 4), Pos(2, 4), Pos(1, 4), Pos(0, 4), Pos(0, 5), Pos(1, 5)>>

WalledSnapshots ==
    {Snapshot(4, 10, food, Snake("me", PenSelf, hp),
              <<Snake("opp1", PenOpponent, 90), Snake("opp2", PenWall, 90)>>) :
        hp \in CriticalHealths, food \in {<<>>, <<Pos(3, 9)>>}}

\* Self of six segments at health 14 and two shorter opponents in either
\* order: a close one of four segments, one of five further up, and one of
\* five so far up that its hunt score equals that of the first.
RankPrey == {<<4, 1>>, <<5, 2>>, <<5, 7>>}

RankSnapshots ==
    {Snapshot(BandBoard[1], BandBoard[2], <<>>, Snake("me", RowBody(6, 0), 14),
              <<Snake("opp1", RowBody(pr[1][1], pr[1][2]), 90),
                Snake("opp2", RowBody(pr[2][1], pr[2][2]), 90)>>) :
        pr \in {q \in RankPrey \X RankPrey : q[1] # q[2]}}

\* Self of six segments at critical health and a short opponent standing
\* in a column with its head right above Self's head
CloseLens == {2, 3, 4}

CloseSnapshots ==
    {Snapshot(BandBoard[1], BandBoard[2], <<>>, Snake("me", RowBody(6, 0), hp),
              <<Snake("opp1", ColumnBody(l, 5, 1), 90)>>) :
        hp \in CriticalHealths, l \in CloseLens}

EmergencySnapshots ==
    ChaseSnapshots \cup PenSnapshots \cup RivalSnapshots \cup WalledSnapshots
    \cup RankSnapshots \cup CloseSnapshots

\* Self of three segments alone on a board, head on (5,5) and neck on (4,5)
ScenarioBoards == {<<6, 6>>, <<6, 7>>, <<10, 12>>, <<11, 11>>}
ScenarioTails == {Pos(3, 5), Pos(4, 4), Pos(4, 6), Pos(4, 5)}
ScenarioHealths == {10, 20, 100}
ScenarioFoodCells == {Pos(0, 0), Pos(2, 0), Pos(5, 0), Pos(5, 3), Pos(0, 5), Pos(9, 9)}
ScenarioFoodPairs == {Pos(2, 0), Pos(5, 3), Pos(0, 5)}

ScenarioFoods(w, h) ==
    {<<>>}
    \cup {<<f>> : f \in {c \in ScenarioFoodCells : _is_in_bounds(c, w, h)}}
    \cup {<<pr[1], pr[2]>> :
            pr \in {q \in ScenarioFoodPairs \X ScenarioFoodPairs : q[1] # q[2]}}

ScenarioSnapshots ==
    UNION {{Snapshot(b[1], b[2], food, Snake("me", <<Pos(5, 5), Pos(4, 5), t>>, hp), <<>>) :
              t \in {c \in ScenarioTails : _is_in_bounds(c, b[1], b[2])},
              hp \in ScenarioHealths, food \in ScenarioFoods(b[1], b[2])} :
           b \in ScenarioBoards}

\* A long Self stretched out row by row over a board of 15 x 15 cells, its
\* head on open ground: more room than the fill is allowed to count.
StretchBoard == <<15, 15>>
StretchLens == {38}
Reverse(s) == [k \in 1..Len(s) |-> s[Len(s) + 1 - k]]

StretchBody(len, o) ==
    Reverse([k \in 1..len |-> Orient(Serpentine(k, StretchBoard[1]), o, StretchBoard[1])])

StretchSnapshots ==
    {Snapshot(StretchBoard[1], StretchBoard[2], <<>>,
              Snake("me", StretchBody(len, o), 100), <<>>) :
        len \in StretchLens, o \in Orientations}

\* Self of three segments in the middle of the board between two foods at
\* the same distance, in either order, or with one food ten cells away; an
\* opponent of two or four segments has its head beside the upper food.
ForageFoods ==
    {<<Pos(5, 8), Pos(5, 2)>>, <<Pos(5, 2), Pos(5, 8)>>, <<Pos(0, 0)>>}
ForageLens == {2, 4}

ForageSnapshots ==
    {Snapshot(BandBoard[1], BandBoard[2], food,
              Snake("me", <<Pos(5, 5), Pos(4, 5), Pos(3, 5)>>, hp),
              <<Snake("opp1", [k \in 1..l |-> Pos(5 + k, 8)], 90)>>) :
        hp \in ScenarioHealths, food \in ForageFoods, l \in ForageLens}

\* Self of six segments in good health, two opponents of one segment far
\* away and one at least as long as Self standing in a column with its head
\* next to Self's head or one or two columns further.
DuelLens == {6, 8}
DuelColumns == {6, 7, 8}

DuelSnapshots ==
    {Snapshot(BandBoard[1], BandBoard[2], <<>>, Snake("me", RowBody(6, 0), 100),
              <<Snake("opp1", RowBody(1, 5), 90), Snake("opp2", RowBody(1, 7), 90),
                Snake("opp3", ColumnBody(l, col, 1), 90)>>) :
        l \in DuelLens, col \in DuelColumns}

Snapshots ==
    SmallSnapshots \cup CoilSnapshots \cup BandSnapshots \cup FreshGames
    \cup EmergencySnapshots \cup ScenarioSnapshots \cup StretchSnapshots
    \cup ForageSnapshots \cup DuelSnapshots

-----------------------------------------------------------------------------
(* move(), main.py:56-145, pass by pass *)

Unbound == "unbound"

\* main.py:71
InitialScores == [m \in Moves |-> QInt(0)]

ScoresRaise(scores) == \E m \in Moves : scores[m].d = 0

\* a variant that keeps the score table of the previous call
EnterStale(gs) ==
    /\ game_state' = gs
    /\ pc' = "safety"
    /\ safe_moves_mask' = Unbound
    /\ available_space' = Unbound
    /\ dynamic_threshold' = Unbound
    /\ next_move' = Unbound
    /\ UNCHANGED <<move_scores, history>>

\* the frame of a call: main.py:59-71
Enter(gs) ==
    /\ game_state' = gs
    /\ pc' = "safety"
    /\ move_scores' = InitialScores
    /\ safe_moves_mask' = Unbound
    /\ available_space' = Unbound
    /\ dynamic_threshold' = Unbound
    /\ next_move' = Unbound
    /\ UNCHANGED history

NoHistory == [kept |-> FALSE]

\* what the record of answers holds once move() has returned chosen for gs
Recorded(h, gs, chosen) ==
    IF ~h.kept
      THEN IF gs \in FreshGames
             THEN [kept |-> TRUE, gs |-> gs, move |-> chosen, between |-> FALSE]
           ELSE h
    ELSE IF h.gs # gs THEN [h EXCEPT !.between = TRUE]
    ELSE h

Init ==
    /\ game_state \in Snapshots
    /\ pc = "safety"
    /\ move_scores = InitialScores
    /\ safe_moves_mask = Unbound
    /\ available_space = Unbound
    /\ dynamic_threshold = Unbound
    /\ next_move = Unbound
    /\ history = NoHistory

\* a run that starts with a new game
InitReplay == Init /\ game_state \in FreshGames

\* the host's next request, once the call has returned or raised
Receive ==
    /\ pc \in {"done", "raised"}
    /\ \E gs \in FreshGames : Enter(gs)

\* main.py:74-78
BasicSafety ==
    /\ pc = "safety"
    /\ safe_moves_mask' = SafeMask(game_state)
    /\ move_scores' = _evaluate_basic_safety(game_state, move_scores)
    /\ pc' = "space"
    /\ UNCHANGED <<game_state, available_space, dynamic_threshold, next_move, history>>

\* main.py:81-86
SpaceAvailability ==
    /\ pc = "space"
    /\ available_space' = SpaceOfMoves(game_state, safe_moves_mask)
    /\ move_scores' = _evaluate_space_availability(game_state, safe_moves_mask, move_scores)
    /\ pc' = "feeding"
    /\ UNCHANGED <<game_state, safe_moves_mask, dynamic_threshold, next_move, history>>

\* a variant in which the simulated Self is written to the caller's snapshot
CallerAfterChaseAliased(caller, opponent_head) == ChaseState(caller, opponent_head)

\* main.py:311-316: the caller's snapshot after one chase simulation; the
\* simulated Self goes into a copy of the snapshot, under a new 'you' entry
CallerAfterChase(caller, opponent_head) == caller

\* main.py:629-636: the caller's snapshot after one arrival simulation; the
\* simulated state is a new dictionary that shares only the board
CallerAfterArrival(caller, food_pos) == caller

\* the caller's snapshot after the chase simulations of main.py:281-318 from
\* opponent j on, gs being the snapshot the locals of move() were read from
RECURSIVE CallerAfterHunts(_, _, _)
CallerAfterHunts(gs, caller, j) ==
    LET opponents == Opponents(gs)
    IN IF j > Len(opponents) THEN caller
       ELSE IF \/ Len(opponents[j].body) >= MyLength(gs)
               \/ _manhattan_distance(MyHead(gs), opponents[j].body[1]) >= MyHealth(gs) - 5
         THEN CallerAfterHunts(gs, caller, j + 1)
       ELSE CallerAfterHunts(gs, CallerAfterChase(caller, opponents[j].body[1]), j + 1)

\* the caller's snapshot after the arrival simulations of main.py:400-405
RECURSIVE CallerAfterArrivals(_, _, _)
CallerAfterArrivals(gs, caller, i) ==
    IF i > Len(gs.board.food) THEN caller
    ELSE CallerAfterArrivals(gs, CallerAfterArrival(caller, gs.board.food[i]), i + 1)

\* a variant that tests for the food branch first
FeedingBranchFoodFirst(gs, threshold) ==
    IF gs.board.food # <<>> /\ (NeedFood(gs) \/ ~IsAggressive(gs, threshold)) THEN "food"
    ELSE IF IsCritical(gs) /\ Opponents(gs) # <<>> THEN "emergency"
    ELSE "skip"

\* which of the branches of main.py:96-111 runs
FeedingBranch(gs, threshold) ==
    IF IsCritical(gs) /\ Opponents(gs) # <<>> THEN "emergency"
    ELSE IF gs.board.food # <<>> /\ (NeedFood(gs) \/ ~IsAggressive(gs, threshold)) THEN "food"
    ELSE "skip"

FeedingScores(gs, mask, scores, threshold) ==
    LET branch == FeedingBranch(gs, threshold)
    IN IF branch = "emergency" THEN _evaluate_emergency_strategy_enhanced(gs, mask, scores)
       ELSE IF branch = "food" THEN _evaluate_food_seeking_smart(gs, mask, scores)
       ELSE scores

\* the caller's snapshot after main.py:96-111
CallerAfterFeeding(gs, threshold) ==
    LET branch == FeedingBranch(gs, threshold)
    IN IF branch = "emergency" THEN CallerAfterHunts(gs, gs, 1)
       ELSE IF branch = "food" THEN CallerAfterArrivals(gs, gs, 1)
       ELSE gs

\* max() of an empty food_evaluations list, main.py:413
FeedingRaises(gs, threshold) ==
    FeedingBranch(gs, threshold) = "food" /\ BestFoodIndex(gs) = 0

\* main.py:89-111
Feeding ==
    /\ pc = "feeding"
    /\ dynamic_threshold' = _calculate_dynamic_aggressive_threshold(game_state)
    /\ IF FeedingRaises(game_state, dynamic_threshold')
         THEN pc' = "raised" /\ UNCHANGED move_scores
       ELSE LET scores == FeedingScores(game_state, safe_moves_mask, move_scores,
                                        dynamic_threshold')
            IN /\ move_scores' = scores
               /\ pc' = IF ScoresRaise(scores) THEN "raised" ELSE "aggressive"
    /\ game_state' = CallerAfterFeeding(game_state, dynamic_threshold')
    /\ UNCHANGED <<safe_moves_mask, available_space, next_move, history>>

\* main.py:114-118
Aggressive ==
    /\ pc = "aggressive"
    /\ LET scores == IF IsAggressive(game_state, dynamic_threshold)
                        /\ Opponents(game_state) # <<>>
                       THEN _evaluate_aggressive_strategy(game_state, safe_moves_mask,
                                                          move_scores)
                     ELSE move_scores
       IN /\ move_scores' = scores
          /\ pc' = IF ScoresRaise(scores) THEN "raised" ELSE "defense"
    /\ UNCHANGED <<game_state, safe_moves_mask, available_space, dynamic_threshold, next_move,
                   history>>

\* main.py:121-126
HeadToHead ==
    /\ pc = "defense"
    /\ move_scores' = IF Opponents(game_state) # <<>>
                        THEN _evaluate_head_to_head_defense_enhanced(
                                 game_state, safe_moves_mask, move_scores)
                      ELSE move_scores
    /\ pc' = "position"
    /\ UNCHANGED <<game_state, safe_moves_mask, available_space, dynamic_threshold, next_move,
                   history>>

\* main.py:129-132
PositionPreference ==
    /\ pc = "position"
    /\ LET scores == _evaluate_position_preference(game_state, safe_moves_mask, move_scores)
       IN /\ move_scores' = scores
          /\ pc' = IF ScoresRaise(scores) THEN "raised" ELSE "select"
    /\ UNCHANGED <<game_state, safe_moves_mask, available_space, dynamic_threshold, next_move,
                   history>>

\* main.py:135-145
Select ==
    /\ pc = "select"
    /\ LET chosen == SelectMove(safe_moves_mask, move_scores)
       IN IF chosen = "ValueError"
            THEN pc' = "raised" /\ UNCHANGED <<next_move, history>>
          ELSE /\ pc' = "done"
               /\ next_move' = chosen
               /\ history' = Recorded(history, game_state, chosen)
    /\ UNCHANGED <<game_state, move_scores, safe_moves_mask, available_space,
                   dynamic_threshold>>

Next ==
    \/ Receive
    \/ BasicSafety
    \/ SpaceAvailability
    \/ Feeding
    \/ Aggressive
    \/ HeadToHead
    \/ PositionPreference
    \/ Select

Spec == Init /\ [][Next]_vars

\* the same engine, started on a new game
SpecReplay == InitReplay /\ [][Next]_vars

-----------------------------------------------------------------------------
(* Properties *)

Returned == pc = "done"

MaskKnown == pc \notin {"safety"}

SomeMoveSafe == \E m \in Moves : safe_moves_mask[m]

ReturnedPos == NextPos(game_state, next_move)

\* the cells held by a segment other than the last of some snake, Self included
NonTailCells(gs) ==
    UNION {SeqToSet(ButLast(gs.board.snakes[i].body)) : i \in 1..Len(gs.board.snakes)}
    \cup SeqToSet(ButLast(gs.you.body))

\* C1: whenever some move is mask-safe, the move returned is mask-safe.
C1_ReturnsSafeMove ==
    (Returned /\ SomeMoveSafe) => safe_moves_mask[next_move]

\* C2: every call runs to its end without raising and returns one of the
\* four moves, also when no move is safe.
C2_Total ==
    /\ pc # "raised"
    /\ pc \in {"safety", "space", "feeding", "aggressive", "defense", "position",
               "select", "done"}
    /\ ~ScoresRaise(move_scores)
    /\ Returned => next_move \in Moves

C2_Witness == Returned /\ ~SomeMoveSafe /\ next_move \in Moves

C4_NoSelfReversal ==
    (Returned /\ MyLength(game_state) >= 2 /\ SomeMoveSafe)
        => ReturnedPos # MyBody(game_state)[2]

\* C5: the move returned stays on the board when some in-bounds move is
\* mask-safe.
C5_BoundaryRespect ==
    (/\ Returned
     /\ \E m \in Moves :
           /\ safe_moves_mask[m]
           /\ NextPos(game_state, m) \in Cells(game_state.board.width,
                                              game_state.board.height))
        => ReturnedPos \in Cells(game_state.board.width, game_state.board.height)

\* C6: the move returned does not run into a non-tail segment of any snake
\* when some move is free of collisions (mask-safe).
C6_CollisionAvoidance ==
    (Returned /\ SomeMoveSafe) => ReturnedPos \notin NonTailCells(game_state)

\* what the Safety Filter is to reject, stated on cells
Fatal(gs, m) ==
    LET p == NextPos(gs, m)
    IN \/ MyLength(gs) >= 2 /\ p = MyBody(gs)[2]
       \/ p \notin Cells(gs.board.width, gs.board.height)
       \/ p \in SeqToSet(ButLast(MyBody(gs)))
       \/ \E i \in 1..Len(gs.board.snakes) :
             /\ gs.board.snakes[i].id # gs.you.id
             /\ p \in SeqToSet(ButLast(gs.board.snakes[i].body))

\* the last cell of some snake's body
TailCells(gs) ==
    {gs.board.snakes[i].body[Len(gs.board.snakes[i].body)] : i \in 1..Len(gs.board.snakes)}

\* C7: the filter marks a move unsafe, taking 10000 off its score once,
\* exactly when the move leads onto the neck, off the board, or onto a
\* segment other than the last of Self or of an opponent; a move onto a
\* tail cell that is no such segment is mask-safe.
C7_SafetyFilter ==
    /\ MaskKnown =>
         \A m \in Moves :
            /\ safe_moves_mask[m] = ~Fatal(game_state, m)
            /\ (/\ NextPos(game_state, m) \in TailCells(game_state)
                /\ NextPos(game_state, m) \in Cells(game_state.board.width,
                                                   game_state.board.height)
                /\ NextPos(game_state, m) \notin NonTailCells(game_state)
                /\ NextPos(game_state, m) # MyBody(game_state)[2])
                 => safe_moves_mask[m]
    /\ pc = "space" =>
         \A m \in Moves :
            move_scores[m] = IF Fatal(game_state, m) THEN QInt(-10000) ELSE QInt(0)

C7_Witness ==
    /\ pc = "space"
    /\ \E m \in Moves :
          /\ safe_moves_mask[m]
          /\ \E i \in 1..Len(game_state.board.snakes) :
                LET body == game_state.board.snakes[i].body
                IN /\ game_state.board.snakes[i].id # game_state.you.id
                   /\ Len(body) >= 2
                   /\ NextPos(game_state, m) = body[Len(body)]
    /\ \E m \in Moves : UnsafeReason(game_state, m) = "bounds"
    /\ \E m \in Moves : UnsafeReason(game_state, m) = "neck"

ThresholdKnown == pc \in {"aggressive", "defense", "position", "select", "done"}

\* the average of a non-empty sequence of lengths, as a rational
Average(lens) == QDiv(SumSeq(lens), Len(lens))

\* the rule table of the threshold controller, first match first
FirstMatchingRule(my_length, lens) ==
    IF Len(lens) = 0 THEN 6
    ELSE IF QGreater(Average(lens), QInt(my_length + 3)) THEN 10
    ELSE IF \E j \in 1..Len(lens) : lens[j] > my_length + 4 THEN 11
    ELSE IF QLess(Average(lens), QInt(my_length - 2)) THEN 6
    ELSE IF Len(lens) >= 4 THEN 9
    ELSE IF Len(lens) <= 2 THEN 7
    ELSE 8

\* C8: the threshold is the value of the first matching rule; it lies in
\* 6..11 and is 8 only with exactly three opponents.
C8_ThresholdRules ==
    ThresholdKnown =>
        /\ dynamic_threshold = FirstMatchingRule(MyLength(game_state),
                                                 OpponentLengths(game_state))
        /\ dynamic_threshold \in 6..11
        /\ dynamic_threshold = 8 => Len(Opponents(game_state)) = 3

C8_Witness ==
    /\ ThresholdKnown
    /\ dynamic_threshold = 8
    /\ Len(Opponents(game_state)) = 3

\* the snapshot of the band family with Self as in gs and opponents of lengths lens
OtherPopulation(gs, lens) == BandSnapshot(MyLength(gs), MyHealth(gs), gs.board.food, lens)

\* C9 as stated: against any population with a strictly larger average
\* opponent length and the same Self length, the threshold is not smaller.
C9_MonotoneInAverage ==
    (pc = "aggressive" /\ game_state \in BandSnapshots /\ Opponents(game_state) # <<>>) =>
        \A lens \in Populations :
            (/\ lens # <<>>
             /\ QGreater(Average(lens), Average(OpponentLengths(game_state))))
              => _calculate_dynamic_aggressive_threshold(OtherPopulation(game_state, lens))
                    >= dynamic_threshold

\* C9 as amended: the same, for populations with as many opponents, when
\* the threshold of the first was not set by the strongest-opponent rule (11).
C9_MonotoneSameCount ==
    (/\ pc = "aggressive" /\ game_state \in BandSnapshots /\ Opponents(game_state) # <<>>
     /\ dynamic_threshold # 11) =>
        \A lens \in Populations :
            (/\ Len(lens) = Len(Opponents(game_state))
             /\ QGreater(Average(lens), Average(OpponentLengths(game_state))))
              => _calculate_dynamic_aggressive_threshold(OtherPopulation(game_state, lens))
                    >= dynamic_threshold

C9_Witness ==
    /\ pc = "aggressive" /\ game_state \in BandSnapshots
    /\ dynamic_threshold = 7
    /\ \E lens \in Populations :
          /\ Len(lens) = Len(Opponents(game_state))
          /\ QGreater(Average(lens), Average(OpponentLengths(game_state)))
          /\ _calculate_dynamic_aggressive_threshold(OtherPopulation(game_state, lens)) = 10

ObstacleRadius == 2     \* how far from Self's head an obstacle is added

Occupied(gs) ==
    UNION {SeqToSet(gs.board.snakes[i].body) : i \in 1..Len(gs.board.snakes)}

\* gs with one more snake, newly spawned on cell: one more obstacle cell
WithObstacle(gs, cell) ==
    [gs EXCEPT !.board.snakes = Append(@, Snake("extra", <<cell, cell, cell>>, 100))]

MoreObstacles(gs) ==
    {WithObstacle(gs, c) :
       c \in {p \in Cells(gs.board.width, gs.board.height) :
                /\ _manhattan_distance(p, MyHead(gs)) <= ObstacleRadius
                /\ p \notin Occupied(gs)}}

\* the cells an unbounded fill from start_pos visits
RECURSIVE Reach(_, _, _, _, _)
Reach(frontier, seen, obstacles, w, h) ==
    IF frontier = {} THEN seen
    ELSE LET new == UNION {Neighbours(c, w, h) : c \in frontier} \ (seen \cup obstacles)
         IN Reach(new, seen \cup new, obstacles, w, h)

Region(start_pos, gs) ==
    Reach({start_pos}, {start_pos}, FloodObstacles(gs), gs.board.width, gs.board.height)

SafeStarts == {m \in Moves : safe_moves_mask[m]}

\* C10: the count from a start whose region contains that of another start
\* is not smaller; and one more obstacle cell never raises the count from
\* a fixed start.
C10_FloodFillMonotone ==
    pc = "feeding" =>
        /\ \A a, b \in SafeStarts :
              Region(NextPos(game_state, b), game_state)
                  \subseteq Region(NextPos(game_state, a), game_state)
              => available_space[a] >= available_space[b]
        /\ \A m \in SafeStarts : \A v \in MoreObstacles(game_state) :
              _flood_fill_dynamic(NextPos(game_state, m), v) <= available_space[m]

C10_Witness ==
    /\ pc = "feeding"
    /\ \E m \in SafeStarts : \E v \in MoreObstacles(game_state) :
          _flood_fill_dynamic(NextPos(game_state, m), v) < available_space[m]
    /\ \E a, b \in SafeStarts :
          /\ a # b
          /\ Region(NextPos(game_state, b), game_state)
                 \subseteq Region(NextPos(game_state, a), game_state)

-----------------------------------------------------------------------------
(* The emergency hunt scenario *)

\* Self at health 10 with no food and one shorter opponent whose head can be
\* chased safely
LoneShorterOpponent(gs) ==
    /\ MyHealth(gs) = 10
    /\ gs.board.food = <<>>
    /\ Len(Opponents(gs)) = 1
    /\ Len(Opponents(gs)[1].body) < MyLength(gs)
    /\ ChasePathSafe(gs, Opponents(gs)[1])

PreyLength(gs) == Len(Opponents(gs)[1].body)
PreyHead(gs) == Opponents(gs)[1].body[1]
PreyDistance(gs) == _manhattan_distance(MyHead(gs), PreyHead(gs))

\* what the pass that is running adds to the score of move m
Added(m) == QSub(move_scores'[m], move_scores[m])

\* the running pass adds to every mask-safe move a bonus that is larger for
\* a move that ends closer to target
PullsToward(target) ==
    /\ \A m \in Moves : safe_moves_mask[m] => QGreater(Added(m), QInt(0))
    /\ \A m, n \in Moves :
          (/\ safe_moves_mask[m] /\ safe_moves_mask[n]
           /\ _manhattan_distance(NextPos(game_state, m), target)
                < _manhattan_distance(NextPos(game_state, n), target))
            => QGreater(Added(m), Added(n))

\* C11 as stated: with one opponent of length 2 at distance 3 the emergency
\* pass applies the hunt option, pulling every mask-safe move toward the
\* opponent's head.
C11_HuntsLengthTwo ==
    [][(/\ pc = "feeding"
        /\ LoneShorterOpponent(game_state)
        /\ PreyLength(game_state) = 2
        /\ PreyDistance(game_state) = 3)
         => PullsToward(PreyHead(game_state))]_vars

\* the hunt score of a lone prey whose chase path is safe
LonePreyScore(gs) == PreyLength(gs) * 50 - PreyDistance(gs) * 10 - 100

LonePreyQualifies(gs) ==
    /\ PreyLength(gs) >= 3
    /\ LonePreyScore(gs) > 50
    /\ PreyDistance(gs) < 5

\* C11 as amended: in that scenario, for an opponent of any length at any
\* distance, the hunt option is applied exactly when the opponent has at
\* least 3 segments, its hunt score 50*length - 10*distance - 100 is above 50
\* and its distance is below health - 5; it then adds score/(distance + 1)
\* to every mask-safe move, more to a move that ends closer; otherwise, as
\* for an opponent of length 2, the pass changes no score.
C11_HuntNeedsReward ==
    [][(pc = "feeding" /\ LoneShorterOpponent(game_state))
         => IF LonePreyQualifies(game_state)
              THEN /\ \A m \in Moves :
                        move_scores'[m] =
                          IF safe_moves_mask[m]
                            THEN QAdd(move_scores[m],
                                      QDiv(LonePreyScore(game_state),
                                           _manhattan_distance(NextPos(game_state, m),
                                                               PreyHead(game_state)) + 1))
                          ELSE move_scores[m]
                   /\ PullsToward(PreyHead(game_state))
            ELSE move_scores' = move_scores]_vars

C11_Witness ==
    /\ pc = "aggressive"
    /\ LoneShorterOpponent(game_state)
    /\ LonePreyQualifies(game_state)
    /\ PreyDistance(game_state) = 3
    /\ \E m, n \in Moves :
          /\ safe_moves_mask[m] /\ safe_moves_mask[n]
          /\ _manhattan_distance(NextPos(game_state, m), PreyHead(game_state))
               < _manhattan_distance(NextPos(game_state, n), PreyHead(game_state))
          /\ QGreater(move_scores[m], move_scores[n])

-----------------------------------------------------------------------------
(* The empty-board scenario *)

EmptyBoardScenario(gs) ==
    /\ Opponents(gs) = <<>>
    /\ MyLength(gs) = 3
    /\ MyHead(gs) = Pos(5, 5)
    /\ MyBody(gs)[2] = Pos(4, 5)
    /\ gs.board.width >= 6 /\ gs.board.height >= 6

TargetedFood(gs) == gs.board.food[BestFoodIndex(gs)]

FoodDistance(gs, m) == _manhattan_distance(NextPos(gs, m), TargetedFood(gs))

\* twice the Manhattan distance from where m leads to (width/2, height/2)
TwiceCentreDistance(gs, m) ==
    Abs(2 * NextPos(gs, m).x - gs.board.width) + Abs(2 * NextPos(gs, m).y - gs.board.height)

\* C12 as stated: in the scenario 'left' is masked, a mask-safe move among
\* up, down and right is returned; with food it is a mask-safe move nearest
\* to the targeted food, without food one nearest to the centre of the board.
C12_EmptyBoardNearest ==
    (Returned /\ EmptyBoardScenario(game_state)) =>
        /\ ~safe_moves_mask["left"]
        /\ next_move \in {"up", "down", "right"}
        /\ safe_moves_mask[next_move]
        /\ game_state.board.food # <<>> =>
              \A m \in Moves : safe_moves_mask[m] =>
                  FoodDistance(game_state, next_move) <= FoodDistance(game_state, m)
        /\ game_state.board.food = <<>> =>
              \A m \in Moves : safe_moves_mask[m] =>
                  TwiceCentreDistance(game_state, next_move)
                      <= TwiceCentreDistance(game_state, m)

\* the pull of the targeted food on m plus the pull of the centre on m
FoodAndCentre(gs, m) ==
    QAdd(QDiv(IF MyHealth(gs) < 15 THEN 200 ELSE IF MyHealth(gs) < 30 THEN 100 ELSE 30,
              FoodDistance(gs, m) + 1),
         QDiv(10, TwiceCentreDistance(gs, m) + 2))

Earlier(m, n) ==
    \E i, j \in 1..4 : i < j /\ possible_moves[i] = m /\ possible_moves[j] = n

\* C12 as amended: the same, but with food the move returned is the first
\* mask-safe move that maximises weight/(distance to the targeted food + 1)
\* + 5/(distance to the centre + 1), weight being 200, 100 or 30 by health;
\* it need not be a move nearest to the food.
C12_EmptyBoardBestSum ==
    (Returned /\ EmptyBoardScenario(game_state)) =>
        /\ ~safe_moves_mask["left"]
        /\ next_move \in {"up", "down", "right"}
        /\ safe_moves_mask[next_move]
        /\ game_state.board.food # <<>> =>
              \A m \in Moves : safe_moves_mask[m] =>
                  /\ ~QGreater(FoodAndCentre(game_state, m),
                               FoodAndCentre(game_state, next_move))
                  /\ Earlier(m, next_move) =>
                        QLess(FoodAndCentre(game_state, m),
                              FoodAndCentre(game_state, next_move))
        /\ game_state.board.food = <<>> =>
              \A m \in Moves : safe_moves_mask[m] =>
                  TwiceCentreDistance(game_state, next_move)
                      <= TwiceCentreDistance(game_state, m)

C12_Witness ==
    /\ Returned /\ EmptyBoardScenario(game_state)
    /\ game_state.board.food # <<>>
    /\ MyHealth(game_state) < 30
    /\ \E m \in Moves :
          /\ safe_moves_mask[m]
          /\ FoodDistance(game_state, m) < FoodDistance(game_state, next_move)

-----------------------------------------------------------------------------
(* The aggregator: no safe move, ties, the sentinel *)

AllBlocked(gs) == \A m \in Moves : Fatal(gs, m)

\* the candidate list of the aggregator, as a set
Candidates == {m \in Moves : safe_moves_mask[m] /\ QGreater(move_scores[m], QInt(-9000))}

\* C13: when every move leads onto the neck, off the board or onto a
\* non-tail segment, the mask is false four times, there is no candidate,
\* every score is the same and 'up', an arg-max over all four, is returned.
C13_AllBlocked ==
    (Returned /\ AllBlocked(game_state)) =>
        /\ \A m \in Moves : ~safe_moves_mask[m]
        /\ Candidates = {}
        /\ \A m \in Moves : ~QGreater(move_scores[m], move_scores[next_move])
        /\ \A m, n \in Moves : move_scores[m] = move_scores[n]
        /\ next_move = "up"

C13_Witness ==
    /\ Returned /\ AllBlocked(game_state)
    /\ Opponents(game_state) # <<>>
    /\ next_move = "up"

\* the moves the aggregator chooses among: the candidates, or all four
Pool == IF Candidates = {} THEN Moves ELSE Candidates

\* C14: the move returned has the maximal score of the pool, and every move
\* of the pool that comes before it in the enumeration scores strictly less.
C14_TieBreak ==
    Returned =>
        /\ next_move \in Pool
        /\ \A m \in Pool : ~QGreater(move_scores[m], move_scores[next_move])
        /\ \A m \in Pool : Earlier(m, next_move) => QLess(move_scores[m], move_scores[next_move])

C14_Witness ==
    /\ Returned
    /\ Candidates # {}
    /\ next_move # "up"
    /\ \E m \in Candidates : m # next_move /\ move_scores[m] = move_scores[next_move]

EndOfTurn == pc \in {"select", "done"}

\* C15: at the end of a turn every mask-safe move scores above -9000 and
\* every other move at most -9000, so the candidates are the mask-safe moves.
C15_SentinelSeparation ==
    EndOfTurn =>
        /\ \A m \in Moves : safe_moves_mask[m] => QGreater(move_scores[m], QInt(-9000))
        /\ \A m \in Moves : ~safe_moves_mask[m] => ~QGreater(move_scores[m], QInt(-9000))
        /\ Candidates = {m \in Moves : safe_moves_mask[m]}

-----------------------------------------------------------------------------
(* The Reachability Estimator *)

\* the calls of the estimator a turn on gs can make: from where each
\* mask-safe move leads, from each food with Self moved onto it, from each
\* opponent's head with Self moved onto it
EngineFills(gs) ==
    {[start |-> NextPos(gs, m), gs |-> gs] : m \in {n \in Moves : SafeMask(gs)[n]}}
    \cup {[start |-> gs.board.food[i], gs |-> ArrivalState(gs, gs.board.food[i])] :
            i \in 1..Len(gs.board.food)}
    \cup {[start |-> Opponents(gs)[i].body[1],
           gs |-> ChaseState(gs, Opponents(gs)[i].body[1])] : i \in 1..Len(Opponents(gs))}

\* those, and the calls from where the masked moves lead, on or off the board
AnyFills(gs) == EngineFills(gs) \cup {[start |-> NextPos(gs, m), gs |-> gs] : m \in Moves}

\* the iteration cap of a board of board_size cells
AreaCap(board_size) ==
    IF board_size <= 100 THEN 80
    ELSE IF board_size <= 200 THEN 120
    ELSE IF board_size \div 2 <= 250 THEN board_size \div 2 ELSE 250

\* min(cap, 3 x length of the Self body of gs)
FillBudget(gs) == Min2(AreaCap(gs.board.width * gs.board.height), 3 * Len(gs.you.body))

NoRepeats(seq) == \A i, j \in 1..Len(seq) : seq[i] = seq[j] => i = j

\* C16: every call of the estimator ends, having dequeued at most
\* min(cap, 3 x Self length) cells, one per unit of its count, and having
\* enqueued no cell twice.
C16_FillBounded ==
    pc = "feeding" =>
        /\ \A c \in AnyFills(game_state) :
              LET run == FloodRun(c.start, c.gs)
              IN /\ Len(run.dequeued) <= FillBudget(c.gs)
                 /\ run.count = Len(run.dequeued)
                 /\ NoRepeats(run.enqueued)
        /\ \A m \in SafeStarts :
              available_space[m] = Len(FloodRun(NextPos(game_state, m), game_state).dequeued)

C16_Witness ==
    /\ pc = "feeding"
    /\ \E m \in SafeStarts :
          /\ available_space[m] = AreaCap(game_state.board.width * game_state.board.height)
          /\ available_space[m] < 3 * MyLength(game_state)
          /\ FloodRun(NextPos(game_state, m), game_state).queue # <<>>

\* C17: every call of the estimator returns min(R, cap, 3 x L), at least 1,
\* R being the number of cells of the region of the start: the start and
\* the cells in bounds that are no obstacle and connected to it.
C17_FillIsMinimum ==
    pc = "feeding" =>
        \A c \in AnyFills(game_state) :
           LET count == _flood_fill_dynamic(c.start, c.gs)
           IN /\ count = Min2(Cardinality(Region(c.start, c.gs)), FillBudget(c.gs))
              /\ count >= 1
              /\ \A m \in SafeStarts :
                    (c.gs = game_state /\ c.start = NextPos(game_state, m))
                        => available_space[m] = count

C17_Witness ==
    /\ pc = "feeding"
    /\ \E c \in EngineFills(game_state) :
          /\ c.start \in FloodObstacles(c.gs)
          /\ _flood_fill_dynamic(c.start, c.gs) = Cardinality(Region(c.start, c.gs))
          /\ _flood_fill_dynamic(c.start, c.gs) < FillBudget(c.gs)

MaxArea == 700      \* the largest board area compared

\* C18: the cap of a board with more cells is never smaller than that of a
\* board with fewer; it is 80 up to 100 cells and never above 250.
C18_CapMonotone ==
    pc = "feeding" =>
        LET area == game_state.board.width * game_state.board.height
        IN /\ \A other \in 1..MaxArea :
                 /\ other >= area => BaseMax(other) >= BaseMax(area)
                 /\ other <= area => BaseMax(other) <= BaseMax(area)
           /\ \A other \in 1..MaxArea :
                 /\ BaseMax(other) <= 250
                 /\ other <= 100 => BaseMax(other) = 80

-----------------------------------------------------------------------------
(* Space Evaluation *)

SpaceTerm(L, s) ==
    10 * s - (IF s < L THEN 50 * (L - s) ELSE 0) - (IF s < L \div 2 THEN 200 ELSE 0)

\* C19: the space pass adds 10 s - (50 (L - s) if s < L) - (200 if s < L div 2)
\* to the score of each mask-safe move, s being the count of the estimator
\* from where the move leads and L Self's length, and changes nothing else;
\* for that L the amount added never falls as s grows.
C19_SpacePass ==
    [][pc = "space" =>
         LET L == Len(game_state.you.body)
         IN /\ \A m \in Moves :
                  move_scores'[m] =
                      IF safe_moves_mask[m]
                      THEN QAdd(move_scores[m],
                                QInt(SpaceTerm(L, FloodRun(NextPos(game_state, m),
                                                           game_state).count)))
                      ELSE move_scores[m]
            /\ <<game_state, safe_moves_mask, dynamic_threshold, next_move>>'
                 = <<game_state, safe_moves_mask, dynamic_threshold, next_move>>
            /\ \A s \in 0..(3 * L) :
                  SpaceContribution(L, s) <= SpaceContribution(L, s + 1)]_vars

C19_Witness ==
    /\ pc = "feeding"
    /\ ~(\A m \in Moves : safe_moves_mask[m])
    /\ \E m, n \in SafeStarts :
          /\ available_space[m] < MyLength(game_state) \div 2
          /\ available_space[n] >= MyLength(game_state) \div 2
          /\ available_space[n] < MyLength(game_state)

-----------------------------------------------------------------------------
(* Emergency arbitration *)

Emergency(gs) == MyHealth(gs) < 15 /\ Opponents(gs) # <<>>

\* the scores with the hunt option, or the food option, applied to them
HuntApplied(scores) ==
    LET hunt == BestHuntOption(game_state)
    IN [m \in Moves |->
           IF safe_moves_mask[m]
           THEN QAdd(scores[m],
                     QDivInt(hunt.score,
                             _manhattan_distance(NextPos(game_state, m), hunt.target) + 1))
           ELSE scores[m]]

FoodApplied(scores) ==
    LET food == BestFoodOption(game_state)
    IN [m \in Moves |->
           IF safe_moves_mask[m]
           THEN QAdd(scores[m],
                     QDiv(500, _manhattan_distance(NextPos(game_state, m), food.target) + 1))
           ELSE scores[m]]

HuntPreferred ==
    LET hunt == BestHuntOption(game_state)
        food == BestFoodOption(game_state)
    IN /\ QGreater(hunt.score, QAdd(food.score, food.score))
       /\ hunt.path_safe
       /\ QLess(hunt.third_party_risk, QInt(100))

\* C20: in an emergency (health below 15, opponents on the board) with both
\* a hunt and a food option, the hunt is applied if its score is above twice
\* the food score, its chase path is safe and its third-party risk is below
\* 100, and the food otherwise; a lone option is applied whatever its path
\* and risk; the two are never applied together, and with no option the
\* scores stay.
C20_Arbitration ==
    [][(pc = "feeding" /\ Emergency(game_state)) =>
         LET hunt == BestHuntOption(game_state)
             food == BestFoodOption(game_state)
         IN /\ (hunt.exists /\ food.exists) =>
                  /\ move_scores' = IF HuntPreferred THEN HuntApplied(move_scores)
                                    ELSE FoodApplied(move_scores)
                  /\ SafeStarts # {} => move_scores' # FoodApplied(HuntApplied(move_scores))
            /\ (hunt.exists /\ ~food.exists) => move_scores' = HuntApplied(move_scores)
            /\ (~hunt.exists /\ food.exists) => move_scores' = FoodApplied(move_scores)
            /\ (~hunt.exists /\ ~food.exists) => move_scores' = move_scores]_vars

\* both options exist and the hunt is preferred: the scores are those of the
\* space pass with the hunt bonus on top
C20_Witness ==
    /\ pc = "aggressive"
    /\ Emergency(game_state)
    /\ BestHuntOption(game_state).exists
    /\ BestFoodOption(game_state).exists
    /\ HuntPreferred
    /\ SafeStarts # {}
    /\ move_scores = HuntApplied([m \in Moves |->
                         IF safe_moves_mask[m]
                         THEN QInt(SpaceTerm(MyLength(game_state), available_space[m]))
                         ELSE QInt(0 - UNSAFE_PENALTY)])
    /\ move_scores # FoodApplied([m \in Moves |->
                         IF safe_moves_mask[m]
                         THEN QInt(SpaceTerm(MyLength(game_state), available_space[m]))
                         ELSE QInt(0 - UNSAFE_PENALTY)])

-----------------------------------------------------------------------------
(* Emergency projection *)

\* the option the arbitration applies, None if there is none
ChosenOption(gs) ==
    IF EmergencyChoice(gs) = "hunt" THEN BestHuntOption(gs)
    ELSE IF EmergencyChoice(gs) = "food" THEN BestFoodOption(gs)
    ELSE None

\* C21: in an emergency the option applied adds option_score / (d_m + 1) to
\* each mask-safe move m, option_score being the option's own score and d_m
\* the distance from where m leads to the option's target; the other moves
\* get nothing.
C21_ProjectsOptionScore ==
    [][(pc = "feeding" /\ Emergency(game_state) /\ ChosenOption(game_state).exists) =>
         LET option == ChosenOption(game_state)
         IN \A m \in Moves :
               move_scores'[m] =
                   IF safe_moves_mask[m]
                   THEN QAdd(move_scores[m],
                             QDivInt(option.score,
                                     _manhattan_distance(NextPos(game_state, m),
                                                         option.target) + 1))
                   ELSE move_scores[m]]_vars

-----------------------------------------------------------------------------
(* Hunt candidate selection *)

\* 50 x length - 10 x distance - third-party threat - (0 or 150) - 100
CompositeHuntScore(gs, opponent) ==
    LET d == _manhattan_distance(MyHead(gs), opponent.body[1])
        flat == 50 * Len(opponent.body) - 10 * d - 100
                - (IF ChasePathSafe(gs, opponent) THEN 0 ELSE 150)
    IN QSub(QInt(flat), ThirdPartyThreat(gs, opponent))

\* the opponents, by index, that meet the four conditions
Qualifying(gs) ==
    {j \in 1..Len(Opponents(gs)) :
        LET opponent == Opponents(gs)[j]
        IN /\ Len(opponent.body) < Len(gs.you.body)
           /\ _manhattan_distance(MyHead(gs), opponent.body[1]) < gs.you.health - 5
           /\ QGreater(CompositeHuntScore(gs, opponent), QInt(50))
           /\ Len(opponent.body) >= 3}

\* C22: the retained hunt option is the qualifying opponent of highest hunt
\* score, the first in snapshot order among equals; there is none when no
\* opponent qualifies; an opponent as long as Self is never the target.
C22_HuntSelection ==
    (pc = "feeding" /\ Emergency(game_state)) =>
        LET gs == game_state
            hunt == BestHuntOption(gs)
        IN /\ hunt.exists <=> Qualifying(gs) # {}
           /\ hunt.exists =>
                 \E j \in Qualifying(gs) :
                    /\ hunt.target = Opponents(gs)[j].body[1]
                    /\ hunt.score = CompositeHuntScore(gs, Opponents(gs)[j])
                    /\ \A k \in Qualifying(gs) :
                          LET other == CompositeHuntScore(gs, Opponents(gs)[k])
                          IN /\ ~QGreater(other, hunt.score)
                             /\ (k < j => QLess(other, hunt.score))
           /\ hunt.exists =>
                 \A k \in 1..Len(Opponents(gs)) :
                    Len(Opponents(gs)[k].body) >= Len(gs.you.body)
                        => Opponents(gs)[k].body[1] # hunt.target

C22_Witness ==
    /\ pc = "aggressive"
    /\ Emergency(game_state)
    /\ \E j, k \in Qualifying(game_state) :
          /\ j < k
          /\ CompositeHuntScore(game_state, Opponents(game_state)[j])
               = CompositeHuntScore(game_state, Opponents(game_state)[k])
          /\ BestHuntOption(game_state).target = Opponents(game_state)[j].body[1]

-----------------------------------------------------------------------------
(* Smart Food Seeking *)

\* the sum of the rationals f[1], ..., f[n]
RECURSIVE QSumTo(_, _)
QSumTo(f, n) == IF n = 0 THEN QInt(0) ELSE QAdd(QSumTo(f, n - 1), f[n])

\* 10 / (d_opp + 1) summed over the opponents at least as long as Self that
\* are no further from the food than Self
FoodThreat(gs, f) ==
    LET opponents == Opponents(gs)
        share == [j \in 1..Len(opponents) |->
                    LET d_opp == _manhattan_distance(opponents[j].body[1], f)
                    IN IF /\ Len(opponents[j].body) >= Len(gs.you.body)
                          /\ d_opp <= _manhattan_distance(MyHead(gs), f)
                         THEN QDiv(10, d_opp + 1) ELSE QInt(0)]
    IN QSumTo(share, Len(opponents))

\* 100 / (d + 1) + 2 x space after arrival - threat
FoodComposite(gs, f) ==
    QSub(QAdd(QDiv(100, _manhattan_distance(MyHead(gs), f) + 1),
              QInt(2 * FloodRun(f, ArrivalState(gs, f)).count)),
         FoodThreat(gs, f))

FoodPullWeight(gs) ==
    IF gs.you.health < 15 THEN 200 ELSE IF gs.you.health < 30 THEN 100 ELSE 30

\* C23: when smart food seeking runs, some food of maximal composite score,
\* the first such in the list, is the target, and weight / (d_m + 1) is
\* added to every mask-safe move m and to no other, the weight being 200
\* below health 15, 100 below health 30 and 30 otherwise.
C23_SmartFoodSeeking ==
    [][(pc = "feeding" /\ FeedingBranch(game_state, dynamic_threshold') = "food") =>
         LET gs == game_state
             food == gs.board.food
         IN \E i \in 1..Len(food) :
               /\ \A k \in 1..Len(food) :
                     /\ ~QGreater(FoodComposite(gs, food[k]), FoodComposite(gs, food[i]))
                     /\ (k < i => QLess(FoodComposite(gs, food[k]), FoodComposite(gs, food[i])))
               /\ \A m \in Moves :
                     move_scores'[m] =
                         IF safe_moves_mask[m]
                         THEN QAdd(move_scores[m],
                                   QDiv(FoodPullWeight(gs),
                                        _manhattan_distance(NextPos(gs, m), food[i]) + 1))
                         ELSE move_scores[m]]_vars

\* the pass has run on two foods of which the second, further from the
\* threat, was the target
C23_Witness ==
    /\ pc = "aggressive"
    /\ FeedingBranch(game_state, dynamic_threshold) = "food"
    /\ Len(game_state.board.food) = 2
    /\ BestFoodIndex(game_state) = 2
    /\ FoodThreat(game_state, game_state.board.food[1]) # QInt(0)
    /\ SafeStarts # {}
    /\ \E m \in Moves : ~safe_moves_mask[m]

-----------------------------------------------------------------------------
(* Aggressive Strategy *)

AggressiveRuns ==
    /\ Opponents(game_state) # <<>>
    /\ Len(game_state.you.body) >= dynamic_threshold
    /\ game_state.you.health > 30

\* what the opponents together add to move m: 50 / (d + 1) for each shorter
\* than Self, -100 / (d + 1) for each other one with d <= 2
AggressiveGain(gs, m) ==
    LET opponents == Opponents(gs)
        share == [j \in 1..Len(opponents) |->
                    LET d == _manhattan_distance(NextPos(gs, m), opponents[j].body[1])
                    IN IF Len(opponents[j].body) < Len(gs.you.body) THEN QDiv(50, d + 1)
                       ELSE IF d <= 2 THEN QDiv(0 - 100, d + 1)
                       ELSE QInt(0)]
    IN QSumTo(share, Len(opponents))

\* C24: the aggressive pass changes scores only when there are opponents,
\* Self is at least as long as the dynamic threshold and its health is above
\* 30; then each mask-safe move gains 50 / (d + 1) per shorter opponent and
\* loses 100 / (d + 1) per other opponent within distance 2, and nothing
\* else changes.
C24_AggressivePass ==
    [][pc = "aggressive" =>
         /\ \A m \in Moves :
               move_scores'[m] =
                   IF AggressiveRuns /\ safe_moves_mask[m]
                   THEN QAdd(move_scores[m], AggressiveGain(game_state, m))
                   ELSE move_scores[m]
         /\ <<game_state, safe_moves_mask, available_space, dynamic_threshold, next_move>>'
              = <<game_state, safe_moves_mask, available_space, dynamic_threshold, next_move>>]_vars

\* the pass has run with a shorter opponent and one as long as Self within
\* distance 2 of a safe move
C24_Witness ==
    /\ pc = "defense"
    /\ AggressiveRuns
    /\ \E m \in SafeStarts, i, j \in 1..Len(Opponents(game_state)) :
          LET opponents == Opponents(game_state)
              Dist(n) == _manhattan_distance(NextPos(game_state, m), opponents[n].body[1])
          IN /\ Len(opponents[i].body) < MyLength(game_state)
             /\ Len(opponents[j].body) >= MyLength(game_state) /\ Dist(j) <= 2

-----------------------------------------------------------------------------
(* Head-to-Head Defense *)

\* the cells next to position that are on the board and not in blocked
StepsFrom(position, blocked, gs) ==
    {p \in {_get_next_position(position, m) : m \in Moves} :
        /\ p.x >= 0 /\ p.x < gs.board.width /\ p.y >= 0 /\ p.y < gs.board.height
        /\ p \notin blocked}

\* where the head of opponent can be after one or two of its moves, its tail
\* having left after the first and the segment before it after the second
CanOccupy(opponent, gs) ==
    LET body == opponent.body
        first == StepsFrom(body[1], {body[k] : k \in 1..(Len(body) - 1)}, gs)
    IN first \cup UNION {StepsFrom(p1, {p1} \cup {body[k] : k \in 1..(Len(body) - 2)}, gs) :
                            p1 \in first}

\* what opponent costs move m
DefenseCost(opponent, gs, m) ==
    LET excess == Len(opponent.body) - Len(gs.you.body)
    IN IF excess < 0 \/ NextPos(gs, m) \notin CanOccupy(opponent, gs) THEN 0
       ELSE IF _manhattan_distance(NextPos(gs, m), opponent.body[1]) <= 1
         THEN 400 + 50 * excess
       ELSE 200 + 30 * excess

\* C25: the defence pass takes from each mask-safe move, for each opponent at
\* least as long as Self, one penalty if the move leads to a cell the
\* opponent can occupy after one or two moves and none otherwise, however
\* often the cell is predicted: 400 + 50 x (length excess) within distance 1
\* of the opponent's head, else 200 + 30 x (length excess); shorter
\* opponents cost nothing.
C25_DefenseOncePerOpponent ==
    [][pc = "defense" =>
         LET gs == game_state
             opponents == Opponents(gs)
             cost == [m \in Moves |->
                        QSumTo([j \in 1..Len(opponents) |->
                                   QInt(DefenseCost(opponents[j], gs, m))], Len(opponents))]
         IN \A m \in Moves :
               move_scores'[m] = IF safe_moves_mask[m] THEN QSub(move_scores[m], cost[m])
                                 ELSE move_scores[m]]_vars

\* the pass has run on a safe move to a cell that an opponent longer than
\* Self reaches by two different pairs of moves, and on one beside a head
C25_Witness ==
    /\ pc = "position"
    /\ \E m \in SafeStarts, j \in 1..Len(Opponents(game_state)) :
          LET opponent == Opponents(game_state)[j]
              predicted == _predict_opponent_next_moves(opponent, game_state.board.width,
                                                        game_state.board.height)
          IN /\ Len(opponent.body) > MyLength(game_state)
             /\ Cardinality({k \in 1..Len(predicted) :
                                predicted[k] = NextPos(game_state, m)}) >= 2
             /\ DefenseCost(opponent, game_state, m)
                  = 200 + 30 * (Len(opponent.body) - MyLength(game_state))
    /\ \E j \in 1..Len(Opponents(game_state)) :
          Len(Opponents(game_state)[j].body) < MyLength(game_state)

-----------------------------------------------------------------------------
(* Commutativity of the scoring passes *)

\* one scoring pass of this turn applied to a score table
ScoringPass(name, scores) ==
    LET gs == game_state
        mask == safe_moves_mask
        threshold == _calculate_dynamic_aggressive_threshold(gs)
    IN CASE name = "space" -> _evaluate_space_availability(gs, mask, scores)
         [] name = "feeding" -> FeedingScores(gs, mask, scores, threshold)
         [] name = "aggressive" ->
                IF IsAggressive(gs, threshold) /\ Opponents(gs) # <<>>
                  THEN _evaluate_aggressive_strategy(gs, mask, scores) ELSE scores
         [] name = "defense" ->
                IF Opponents(gs) # <<>>
                  THEN _evaluate_head_to_head_defense_enhanced(gs, mask, scores) ELSE scores
         [] name = "position" -> _evaluate_position_preference(gs, mask, scores)

PassNames == {"space", "feeding", "aggressive", "defense", "position"}

RECURSIVE InOrder(_, _)
InOrder(order, scores) ==
    IF order = <<>> THEN scores ELSE InOrder(Tail(order), ScoringPass(Head(order), scores))

\* orders other than the one of move(): the reverse, and two in which every
\* pass has changed its neighbours
PassOrders ==
    {<<"position", "defense", "aggressive", "feeding", "space">>,
     <<"aggressive", "position", "space", "defense", "feeding">>,
     <<"feeding", "space", "position", "aggressive", "defense">>}

\* the table the Safety Filter leaves
FilteredScores ==
    [m \in Moves |-> IF safe_moves_mask[m] THEN QInt(0) ELSE QInt(0 - UNSAFE_PENALTY)]

\* C26: what a scoring pass adds to each move does not depend on the scores
\* it finds, and the passes applied after the Safety Filter in another order
\* give the same final scores and the same returned move.
C26_PassesCommute ==
    [][pc = "select" =>
         /\ \A name \in PassNames, m \in Moves :
               QSub(ScoringPass(name, move_scores)[m], move_scores[m])
                 = QSub(ScoringPass(name, FilteredScores)[m], FilteredScores[m])
         /\ \A order \in PassOrders :
               /\ InOrder(order, FilteredScores) = move_scores
               /\ pc' = "done" =>
                     next_move' = SelectMove(safe_moves_mask, InOrder(order, FilteredScores))]_vars

\* a turn has ended in which four passes changed the score of a safe move
\* (the feeding and the aggressive pass never both run in a turn)
C26_Witness ==
    /\ pc = "done"
    /\ \E m \in SafeStarts :
          Cardinality({name \in PassNames :
                          ScoringPass(name, FilteredScores)[m] # FilteredScores[m]}) >= 4
    /\ \E m \in Moves : ~safe_moves_mask[m]

-----------------------------------------------------------------------------
(* The caller's snapshot *)

-----------------------------------------------------------------------------
(* The masked moves *)

ScoringSteps == {"space", "feeding", "aggressive", "defense", "position"}

\* C28: the Safety Filter leaves every move it masks at -10000, no scoring
\* pass after it changes the score of a masked move, and so every masked
\* move has exactly -10000 when the aggregator starts.
C28_MaskedStayAtPenalty ==
    [][/\ pc = "safety" =>
             \A m \in Moves : ~safe_moves_mask'[m] => move_scores'[m] = QInt(0 - 10000)
       /\ pc \in ScoringSteps =>
             \A m \in Moves : ~safe_moves_mask[m] => move_scores'[m] = move_scores[m]
       /\ pc' = "select" =>
             \A m \in Moves : ~safe_moves_mask'[m] => move_scores'[m] = QInt(0 - 10000)]_vars

\* the aggregator starts on a turn with food and opponents in which one move
\* is masked for leaving the board, one for hitting Self, and one is safe
C28_Witness ==
    /\ pc = "select"
    /\ game_state.board.food # <<>>
    /\ Opponents(game_state) # <<>>
    /\ SafeStarts # {}
    /\ \E a, b \in Moves \ SafeStarts :
          /\ ~_is_in_bounds(NextPos(game_state, a), game_state.board.width,
                            game_state.board.height)
          /\ _is_collision_with_body(NextPos(game_state, b), game_state.you.body)

-----------------------------------------------------------------------------
(* Emergency turns without an option *)

\* the distance from Self's head to the nearest food
NearestFoodDistance(gs) ==
    LET dists == {_manhattan_distance(MyHead(gs), gs.board.food[i]) :
                     i \in 1..Len(gs.board.food)}
    IN CHOOSE d \in dists : \A e \in dists : d <= e

\* the scores with a pull of the given weight toward target added
Pulled(scores, target, weight) ==
    [m \in Moves |->
        IF safe_moves_mask[m]
        THEN QAdd(scores[m],
                  QDiv(weight, _manhattan_distance(NextPos(game_state, m), target) + 1))
        ELSE scores[m]]

\* C29: in a turn with health below 15 and an opponent, smart food seeking
\* does not run: no pull of its weight 200 is added toward any food; and if
\* there is food, the nearest no closer than health, and no opponent
\* qualifies as a hunt target, the scores stay as they were.
C29_EmergencyWithoutOption ==
    [][(pc = "feeding" /\ game_state.you.health < 15 /\ Opponents(game_state) # <<>>) =>
         LET gs == game_state
         IN /\ SafeStarts # {} =>
                  \A i \in 1..Len(gs.board.food) :
                     move_scores' # Pulled(move_scores, gs.board.food[i], 200)
            /\ (/\ gs.board.food # <<>>
                /\ NearestFoodDistance(gs) >= gs.you.health
                /\ Qualifying(gs) = {}) => move_scores' = move_scores]_vars

\* such a turn: food out of reach, an opponent that is no hunt target, and
\* scores that are still those of the space pass
C29_Witness ==
    /\ pc = "aggressive"
    /\ game_state.you.health < 15
    /\ Opponents(game_state) # <<>>
    /\ game_state.board.food # <<>>
    /\ NearestFoodDistance(game_state) >= game_state.you.health
    /\ Qualifying(game_state) = {}
    /\ SafeStarts # {}
    /\ \A m \in SafeStarts :
          move_scores[m] = QInt(SpaceTerm(MyLength(game_state), available_space[m]))

-----------------------------------------------------------------------------
(* The hunt-reward threshold *)

\* the opponents, by index, that are shorter than Self, near enough and
\* score above 50, whatever their length
QualifyingByScore(gs) ==
    {j \in 1..Len(Opponents(gs)) :
        LET opponent == Opponents(gs)[j]
        IN /\ Len(opponent.body) < Len(gs.you.body)
           /\ _manhattan_distance(MyHead(gs), opponent.body[1]) < gs.you.health - 5
           /\ QGreater(CompositeHuntScore(gs, opponent), QInt(50))}

\* C30: a retained hunt option is an opponent of at least four segments, and
\* Self has at least five; no opponent of three segments or fewer scores
\* above 50, so the test of the hunt-reward threshold excludes no opponent
\* that the score has not excluded already.
C30_RewardThresholdRedundant ==
    (pc = "feeding" /\ Emergency(game_state)) =>
        LET gs == game_state
            hunt == BestHuntOption(gs)
        IN /\ hunt.exists =>
                 /\ \E j \in 1..Len(Opponents(gs)) :
                       /\ Opponents(gs)[j].body[1] = hunt.target
                       /\ hunt.score = CompositeHuntScore(gs, Opponents(gs)[j])
                       /\ Len(Opponents(gs)[j].body) >= 4
                 /\ Len(gs.you.body) >= 5
           /\ \A j \in 1..Len(Opponents(gs)) :
                 Len(Opponents(gs)[j].body) <= 3
                     => ~QGreater(HuntScore(gs, Opponents(gs)[j]), QInt(50))
           /\ QualifyingByScore(gs) = Qualifying(gs)
           /\ hunt.exists <=> QualifyingByScore(gs) # {}

\* an opponent of four segments has been retained by a Self of five or more
C30_Witness ==
    /\ pc = "aggressive"
    /\ Emergency(game_state)
    /\ BestHuntOption(game_state).exists
    /\ \E j \in Qualifying(game_state) :
          /\ Opponents(game_state)[j].body[1] = BestHuntOption(game_state).target
          /\ Len(Opponents(game_state)[j].body) = 4
    /\ EmergencyChoice(game_state) = "hunt"

====
